---- MODULE Spec2Model ----
(***************************************************************************)
(* easy-video-compress: the Tk job scheduler of compress.py (run_gui), its *)
(* worker (process_row / compress_gui / run_ffmpeg_gui), the command-line  *)
(* scheduler (main / compress / run_with_progress) and the size-target     *)
(* solver loop.                                                            *)
(*                                                                         *)
(* A row's duration is whole seconds, encoder times and the solver's       *)
(* duration are microseconds (ffprobe prints six decimals; out_time_ms is  *)
(* microseconds), a progress percentage is kept as its floor: the code's   *)
(* comparisons (p >= 100, min(100, p)) read the same on it.                *)
(***************************************************************************)
EXTENDS Integers, Sequences, FiniteSets, TLC

VARIABLES
    frontend,       \* which branch of main() runs: "boot", "gui", "cli"
    info,           \* run_gui.info / main.tasks: per row [duration, mode, done]
    tree,           \* the Treeview: per row [tag, result]
    progress_vals,  \* run_gui.progress_vals: per row, percent
    total,          \* run_gui.total
    done,           \* run_gui.done
    gui_queue,      \* run_gui.gui_queue, FIFO of [kind, row, p]
    work_queue,     \* the executor's queue of submitted rows, FIFO
    max_workers,    \* the executor's thread capacity
    job,            \* per row, the call running it: [pc, rc, spawned, probe, ...]
    scale_loop,     \* one run of the solver's loop, stepped: [pc, s, ret]
    relay,          \* one run of run_ffmpeg_gui, its callbacks recorded
    five            \* one run of compress5.find_optimal_parameters, stepped

sched_vars == <<frontend, info, tree, progress_vals, total, done, gui_queue,
                work_queue, max_workers, job>>

vars == <<frontend, info, tree, progress_vals, total, done, gui_queue,
          work_queue, max_workers, job, scale_loop, relay, five>>

(* What the scheduler's steps leave alone *)
aux_vars == <<scale_loop, relay, five>>

----------------------------------------------------------------------------
(* Program constants *)

SHORT_THRESHOLD == 2
MAX_WORKERS == 4
AUDIO_BR == 64000

(* Bounds of the model *)

MaxRows == 2        \* rows of any kind in the Treeview
MaxVideos == 5      \* videos of one command line
MaxQueue == 1       \* unread messages in gui_queue
MaxIter == 250      \* iterations of the stepped solver loop
MaxUnroll == 10     \* iterations of the solver loop run inside one job

Durations == {0, 2, 600}
Modes == {"crf", "size"}

(* The kinds of video a batch longer than MaxRows is made of: a short clip *)
(* at constant quality, a ten-minute video at the size target              *)
BatchKinds == {<<2, "crf">>, <<600, "size">>}

Rows == 1..Len(info)

Min(a, b) == IF a < b THEN a ELSE b
Max(a, b) == IF a > b THEN a ELSE b

----------------------------------------------------------------------------
(* Exact arithmetic for the solver's float expressions.  A natural number  *)
(* is the sequence of its base-10000 limbs, least significant first; the   *)
(* comparisons and truncations of the loop are decided on exact products   *)
(* (a double's relative rounding error of 1e-16 is not modelled).          *)

Limb == 10000

RECURSIVE Big(_)
Big(n) == IF n < Limb THEN <<n>> ELSE <<n % Limb>> \o Big(n \div Limb)

(* x * m + carry as [limbs, carry] with as many limbs as x: the low half   *)
(* first, its carry into the high half                                     *)
RECURSIVE BigMulCarry(_, _, _)
BigMulCarry(x, m, carry) ==
    IF Len(x) = 1
    THEN LET t == x[1] * m + carry
         IN  [limbs |-> <<t % Limb>>, carry |-> t \div Limb]
    ELSE LET half == Len(x) \div 2
             lo == BigMulCarry(SubSeq(x, 1, half), m, carry)
             hi == BigMulCarry(SubSeq(x, half + 1, Len(x)), m, lo.carry)
         IN  [limbs |-> lo.limbs \o hi.limbs, carry |-> hi.carry]

(* x * m, for a multiplier m < 2^31 / Limb *)
BigMul(x, m) ==
    IF m = 0 \/ x = <<0>> THEN <<0>>
    ELSE LET p == BigMulCarry(x, m, 0)
         IN  IF p.carry = 0 THEN p.limbs ELSE p.limbs \o Big(p.carry)

(* x < y: the longer number is the larger; at equal length the highest     *)
(* limb that differs decides                                               *)
BigLess(x, y) ==
    IF Len(x) # Len(y) THEN Len(x) < Len(y)
    ELSE \E i \in 1..Len(x) :
            /\ x[i] < y[i]
            /\ \A j \in (i + 1)..Len(x) : x[j] = y[j]

(* x \div d for d in {1, 10, 100, 1000}, as an integer: limb i of the      *)
(* quotient is (x[i+1] % d) * (Limb \div d) + x[i] \div d                  *)
RECURSIVE BigDivToInt(_, _, _)
BigDivToInt(x, d, i) ==
    IF i > Len(x) THEN 0
    ELSE LET above == IF i < Len(x) THEN (x[i + 1] % d) * (Limb \div d) ELSE 0
         IN  (above + x[i] \div d) + Limb * BigDivToInt(x, d, i + 1)

Pow10(e) == CASE e = 0 -> 1 [] e = 1 -> 10 [] e = 2 -> 100 [] OTHER -> 1000

(* x * m^n: the first half of the factors, then the rest *)
RECURSIVE Scaled(_, _, _)
Scaled(x, m, n) ==
    IF n = 0 THEN x
    ELSE IF n = 1 THEN BigMul(x, m)
    ELSE LET half == Scaled(x, m, n \div 2)
         IN  IF Len(half) > 0 THEN Scaled(half, m, n - n \div 2) ELSE half

(* int(x / 10^k), which fits an integer *)
BigShift(x, k) ==
    IF Len(x) <= k \div 4 THEN 0
    ELSE BigDivToInt(SubSeq(x, k \div 4 + 1, Len(x)), Pow10(k % 4), 1)

----------------------------------------------------------------------------
(* The size-target solver: the loop of compress (155-165) and compress_gui *)
(* (248-258).  dur is the probed duration in microseconds.  The loop's     *)
(* state is the scale, 0.9^k, kept as k with the products the test and the *)
(* result need:                                                            *)
(*   lhs = 10 * AUDIO_BR * Headroom * 100^k     rhs = w * h * dur * 81^k   *)
(*   wk  = w * 9^k                              hk  = h * 9^k              *)
(* iters counts the evaluations of the loop's test.                        *)

(* A target of 4.5 decimal megabytes *)
TargetDecimalMB == (9 * 1000 * 1000) \div 2

target_b == (9 * 1024 * 1024) \div 2        \* int(TARGET_MB * 1024 * 1024)

(* target_b * 8 - AUDIO_BR * dur, in units of AUDIO_BR / 1000000 bits (the *)
(* audio of one microsecond); AUDIO_BR divides 8000000                     *)
Headroom(dur) == target_b * (8000000 \div AUDIO_BR) - dur

(* A quotient n / d kept as whole part and remainder, d < 2^30 *)
Frac(n, d) == [q |-> n \div d, r |-> n % d]

FracAdd(f, g, d) ==
    [q |-> f.q + g.q + (f.r + g.r) \div d, r |-> (f.r + g.r) % d]

RECURSIVE FracMul(_, _, _)
FracMul(f, d, m) ==
    IF m = 0 THEN [q |-> 0, r |-> 0]
    ELSE LET half == FracMul(f, d, m \div 2)
             twice == FracAdd(half, half, d)
         IN  IF m % 2 = 1 THEN FracAdd(twice, f, d) ELSE twice

(* int(vbr) for vbr = (target_b * 8 - AUDIO_BR * dur) / dur: Python's      *)
(* int() truncates toward zero                                             *)
IntVbr(dur) ==
    LET n == Headroom(dur)
    IN  IF n >= 0 THEN FracMul(Frac(n, dur), dur, AUDIO_BR).q
        ELSE -(FracMul(Frac(-n, dur), dur, AUDIO_BR).q)

(* scale = 1.0, for a probed w, h and a duration dur; the products are    *)
(* those of a vbr >= 0                                                     *)
SolverStart(w, h, dur) ==
    [w |-> w, h |-> h, dur |-> dur, k |-> 0, iters |-> 0,
     lhs |-> BigMul(BigMul(Big(Max(Headroom(dur), 0)), AUDIO_BR), 10),
     rhs |-> BigMul(BigMul(Big(Max(dur, 0)), w), h),
     wk |-> Big(w), hk |-> Big(h)]

(* vbr < w * h * scale * scale * 0.1; a negative vbr (the duration and the *)
(* headroom of opposite signs) is below every floor                        *)
BitrateBelowFloor(s) ==
    IF Headroom(s.dur) < 0 \/ s.dur < 0 THEN TRUE ELSE BigLess(s.lhs, s.rhs)

(* A shrink that leaves the floor where it was *)
ShrinkScaleKeepsFloor(s) ==
    [s EXCEPT !.k = @ + 1, !.iters = @ + 1,
              !.lhs = BigMul(@, 100), !.rhs = BigMul(@, 100),
              !.wk = BigMul(@, 9), !.hk = BigMul(@, 9)]

(* scale *= 0.9 *)
ShrinkScale(s) ==
    [s EXCEPT !.k = @ + 1, !.iters = @ + 1,
              !.lhs = BigMul(@, 100), !.rhs = BigMul(@, 81),
              !.wk = BigMul(@, 9), !.hk = BigMul(@, 9)]

(* A return of the probed size, whatever the scale *)
SolverReturnUnscaled(s) ==
    [exits |-> TRUE, iters |-> s.iters + 1, w2 |-> s.w, h2 |-> s.h,
     vbr |-> IntVbr(s.dur)]

(* w2, h2 = int(w * scale), int(h * scale); int(vbr) goes to -b:v *)
SolverReturn(s) ==
    [exits |-> TRUE, iters |-> s.iters + 1,
     w2 |-> BigShift(s.wk, s.k), h2 |-> BigShift(s.hk, s.k),
     vbr |-> IntVbr(s.dur)]

StillLooping(s) ==
    [exits |-> FALSE, iters |-> s.iters, w2 |-> 0, h2 |-> 0, vbr |-> 0]

(* while True: ...  run to its return, or through MaxUnroll iterations *)
RECURSIVE SolverLoop(_)
SolverLoop(s) ==
    IF s.iters >= MaxUnroll THEN StillLooping(s)
    ELSE IF BitrateBelowFloor(s) THEN SolverLoop(ShrinkScale(s))
    ELSE SolverReturn(s)

Solve(w, h, dur) == SolverLoop(SolverStart(w, h, dur))

----------------------------------------------------------------------------
(* The executor (ThreadPoolExecutor): a FIFO of submitted rows and at most *)
(* max_workers threads, each running one row at a time.                    *)

(* The rows a worker thread is running *)
Busy == {r \in Rows : job[r].pc \notin {"queued", "returned"}}

(* The rows whose encoder subprocess is running *)
Encoding == {r \in Rows : job[r].pc \in {"subprocess_run", "reading", "proc_wait"}}

(* run_gui: executor = ThreadPoolExecutor(max_workers=MAX_WORKERS) *)
GuiPoolSize == MAX_WORKERS

(* A pool with a thread for every task *)
CliPoolUncapped(ntasks) == ntasks

(* main: ThreadPoolExecutor(max_workers=min(len(tasks), MAX_WORKERS)) *)
CliPoolSize(ntasks) == Min(ntasks, MAX_WORKERS)

(* A thread is free to take the row at the head of the queue *)
CanStart(r) ==
    /\ work_queue # <<>>
    /\ r = Head(work_queue)
    /\ Cardinality(Busy) < max_workers

NewJob == [pc |-> "queued", rc |-> -1, spawned |-> 0,
           probe |-> "none", w2 |-> 0, h2 |-> 0, vbr |-> 0, log |-> "none"]

Msg(kind, row, p) == [kind |-> kind, row |-> row, p |-> p]

(* gui_queue.put(msg); the model holds at most MaxQueue unread messages *)
Put(msg) ==
    /\ Len(gui_queue) < MaxQueue
    /\ gui_queue' = Append(gui_queue, msg)

----------------------------------------------------------------------------
(* run_gui *)

(* main(): no arguments, "gui" or "--gui" *)
MainGui ==
    /\ frontend = "boot"
    /\ frontend' = "gui"
    /\ max_workers' = GuiPoolSize
    /\ UNCHANGED <<info, tree, progress_vals, total, done, gui_queue,
                   work_queue, job>>

(* The batches the model explores: up to MaxRows rows of any kind, or,     *)
(* all of the same batch kind, one row more than the pool has threads      *)
InBounds(dur, mode) ==
    \/ Len(info) < MaxRows
    \/ /\ Len(info) < GuiPoolSize + 1
       /\ <<dur, mode>> \in BatchKinds
       /\ \A r \in Rows : info[r].duration = dur /\ info[r].mode = mode

(* add_files([path]) for one video path, from select_files, drop, or       *)
(* on_click with a mode_override; get_video_info returned dur              *)
add_files(dur, mode) ==
    /\ frontend = "gui"
    /\ InBounds(dur, mode)
    /\ info' = Append(info, [duration |-> dur, mode |-> mode, done |-> FALSE])
    /\ tree' = Append(tree, [tag |-> "waiting", result |-> ""])
    /\ progress_vals' = Append(progress_vals, 0)
    /\ total' = total + 1
    /\ work_queue' = Append(work_queue, Len(info) + 1)
    /\ job' = Append(job, NewJob)
    /\ UNCHANGED <<frontend, done, gui_queue, max_workers>>

(* The tag process_gui_queue gives a row on a "progress" message *)
ProgressTag(p) == IF p >= 100 THEN "completed" ELSE "in_progress"

(* A counter that also counts "progress" messages *)
DoneStepCountsProgress(kind) ==
    IF kind \in {"finish", "error", "progress"} THEN 1 ELSE 0

(* A counter that counts only "finish" messages *)
DoneStepOnlyFinish(kind) == IF kind = "finish" THEN 1 ELSE 0

(* The change of done on a message of each kind *)
DoneStep(kind) == IF kind \in {"finish", "error"} THEN 1 ELSE 0

(* One iteration of process_gui_queue's loop: msg = gui_queue.get_nowait() *)
(* and the branch of its kind, up to tree.update_idletasks().              *)
process_gui_queue ==
    /\ frontend = "gui"
    /\ gui_queue # <<>>
    /\ LET msg == Head(gui_queue)
           row == msg.row
       IN  /\ gui_queue' = Tail(gui_queue)
           /\ tree' = [tree EXCEPT ![row] =
                 CASE msg.kind = "begin"    -> [@ EXCEPT !.tag = "in_progress"]
                   [] msg.kind = "progress" -> [@ EXCEPT !.tag = ProgressTag(msg.p)]
                   [] msg.kind = "finish"   -> [tag |-> "completed", result |-> "MB"]
                   [] msg.kind = "error"    -> [tag |-> "error", result |-> "error"]]
           /\ progress_vals' = [progress_vals EXCEPT ![row] =
                 CASE msg.kind = "begin"    -> @
                   [] msg.kind = "progress" -> msg.p
                   [] msg.kind = "finish"   -> 100
                   [] msg.kind = "error"    -> 0]
           /\ info' = [info EXCEPT ![row].done =
                 IF msg.kind \in {"finish", "error"} THEN TRUE ELSE @]
           /\ done' = done + DoneStep(msg.kind)
    /\ UNCHANGED <<frontend, total, work_queue, max_workers, job>>

----------------------------------------------------------------------------
(* The worker of run_gui: process_row, compress_gui, run_ffmpeg_gui *)

(* process_row.update(sec): sec * 100 / info[row]["duration"] raises       *)
(* ZeroDivisionError for a duration of 0.0                                 *)
UpdateRaises(dur) == dur = 0

(* process_row.update(sec), sec = us / 1_000_000:                          *)
(* percent = min(100, sec * 100 / duration)                                *)
Percent(us, dur) == Min(100, us \div (dur * 10000))

(* The lines the encoder may write to its -progress pipe *)
NumLine(key, n) == [key |-> key, isint |-> TRUE, n |-> n, word |-> ""]
WordLine(key, word) == [key |-> key, isint |-> FALSE, n |-> 0, word |-> word]

(* The out_time_ms values of the encoder: the negative time it reports    *)
(* before the first timestamp is known, and all of the video               *)
OutTimes(dur) == {-1000000, dur * 1000000}

EncoderLines(dur) ==
    {NumLine("out_time_ms", n) : n \in OutTimes(dur)}
    \cup {WordLine("out_time_ms", "N/A"), NumLine("frame", 1),
          WordLine("progress", "continue"), WordLine("progress", "end")}

(* ms / 1_000_000, the value run_ffmpeg_gui passes to update: seconds and *)
(* the microseconds left over                                              *)
Seconds(n) == [s |-> n \div 1000000, us |-> n % 1000000]

(* The microseconds of a callback value *)
Micros(sec) == sec.s * 1000000 + sec.us

(* A relay that calls update for every line with an integer value *)
CallbacksAnyKey(line) ==
    IF line.isint THEN <<Seconds(line.n)>> ELSE <<>>

(* The body of  for line in proc.stdout: the values update is called with  *)
(* for one line.  int() raises ValueError on a non-numeric value and the   *)
(* except clause passes.                                                   *)
Callbacks(line) ==
    IF line.key = "out_time_ms" /\ line.isint
    THEN <<Seconds(line.n)>>
    ELSE <<>>

(* A relay without the break *)
ReadsToEndOfStream(line) == FALSE

(* elif line.startswith("progress=end"): break *)
EndsReading(line) ==
    line.key # "out_time_ms" /\ line.key = "progress" /\ line.word = "end"

(* What ffprobe may report for the first video stream *)
ProbedSizes == {<<1920, 1080>>}

(* The solver's outcome for each probed size and duration of the rows *)
Solved ==
    [wh \in ProbedSizes, dur \in Durations \ {0} |->
        Solve(wh[1], wh[2], dur * 1000000)]

(* process_row up to compress_gui: a free thread takes the row *)
process_row(r) ==
    /\ frontend = "gui"
    /\ CanStart(r)
    /\ work_queue' = Tail(work_queue)
    /\ Put(Msg("begin", r, 0))
    /\ job' = [job EXCEPT ![r].pc = "compress_gui"]
    /\ UNCHANGED <<frontend, info, tree, progress_vals, total, done, max_workers>>

(* A relay that streams a clip of exactly SHORT_THRESHOLD seconds *)
EncoderPcBelowThreshold(dur) ==
    IF dur < SHORT_THRESHOLD THEN "subprocess_run" ELSE "reading"

(* run_ffmpeg_gui's first branch: which call starts the encoder *)
EncoderPc(dur) == IF dur <= SHORT_THRESHOLD THEN "subprocess_run" ELSE "reading"

(* A worker that starts the encoder although the probe raised *)
RaisedButEncodes(r, why) ==
    [job EXCEPT ![r].pc = "subprocess_run", ![r].spawned = @ + 1,
                ![r].probe = why]

(* compress_gui raised before run_ffmpeg_gui: process_row's except branch  *)
(* is what is left of the job                                              *)
Raised(r, why) == [job EXCEPT ![r].pc = "returned", ![r].probe = why]

(* compress_gui up to the start of the encoder in run_ffmpeg_gui *)
compress_gui(r) ==
    /\ frontend = "gui"
    /\ job[r].pc = "compress_gui"
    /\ LET dur == info[r].duration
           Spawn(w2, h2, vbr) ==
               /\ job' = [job EXCEPT ![r].pc = EncoderPc(dur),
                                     ![r].spawned = @ + 1, ![r].probe = "ok",
                                     ![r].w2 = w2, ![r].h2 = h2, ![r].vbr = vbr]
               /\ UNCHANGED gui_queue
           Fail(why) ==
               /\ Put(Msg("error", r, 0))
               /\ job' = Raised(r, why)
       IN  \/ Fail("get_duration")         \* ffprobe exits nonzero
           \/ /\ info[r].mode = "crf"
              /\ Spawn(0, 0, 0)
           \/ /\ info[r].mode = "size"
              /\ \/ Fail("probe_video")    \* ffprobe exits nonzero, or not two integers
                 \/ \E wh \in ProbedSizes :
                       IF dur = 0
                       THEN Fail("ZeroDivisionError")
                       ELSE LET sol == Solved[wh, dur]
                            IN  IF sol.exits
                                THEN Spawn(sol.w2, sol.h2, sol.vbr)
                                ELSE /\ job' = [job EXCEPT ![r].pc = "solver_loop",
                                                           ![r].probe = "ok"]
                                     /\ UNCHANGED gui_queue
    /\ UNCHANGED <<frontend, info, tree, progress_vals, total, done,
                   work_queue, max_workers>>

(* The solver loop of a job whose test stays true: one more iteration.     *)
(* Among the durations of the rows only a negative vbr (Headroom < 0)      *)
(* keeps the loop past MaxUnroll iterations, and its test is true for      *)
(* every scale.                                                            *)
solver_loop(r) ==
    /\ job[r].pc = "solver_loop"
    /\ UNCHANGED vars

(* A relay that starts the encoder again after a nonzero exit *)
EncoderExitRetries(r, rc) ==
    IF rc # 0
    THEN /\ job' = [job EXCEPT ![r].pc = EncoderPc(info[r].duration),
                               ![r].spawned = @ + 1, ![r].rc = rc]
         /\ UNCHANGED gui_queue
    ELSE /\ Put(Msg("progress", r, 100))
         /\ job' = [job EXCEPT ![r].pc = "stat", ![r].rc = rc]

(* run_ffmpeg_gui's tail: update(duration) after an encoder exit of rc,    *)
(* or the exception that process_row catches                               *)
EncoderExit(r, rc) ==
    IF rc # 0 \/ UpdateRaises(info[r].duration)
    THEN /\ Put(Msg("error", r, 0))
         /\ job' = [job EXCEPT ![r].pc = "returned", ![r].rc = rc]
    ELSE /\ Put(Msg("progress", r,
                    Percent(info[r].duration * 1000000, info[r].duration)))
         /\ job' = [job EXCEPT ![r].pc = "stat", ![r].rc = rc]

(* run_ffmpeg_gui, duration <= SHORT_THRESHOLD: subprocess.run(check=True) *)
(* returns or raises CalledProcessError, then update(duration)             *)
subprocess_run(r) ==
    /\ frontend = "gui"
    /\ job[r].pc = "subprocess_run"
    /\ \E rc \in {0, 1} : EncoderExit(r, rc)
    /\ UNCHANGED <<frontend, info, tree, progress_vals, total, done,
                   work_queue, max_workers>>

(* process_row after compress_gui returned: out.stat(), put "finish" *)
put_finish(r) ==
    /\ frontend = "gui"
    /\ job[r].pc = "stat"
    /\ Put(Msg("finish", r, 0))
    /\ job' = [job EXCEPT ![r].pc = "returned"]
    /\ UNCHANGED <<frontend, info, tree, progress_vals, total, done,
                   work_queue, max_workers>>

(* run_ffmpeg_gui: one iteration of  for line in proc.stdout *)
read_line(r) ==
    /\ frontend = "gui"
    /\ job[r].pc = "reading"
    /\ LET dur == info[r].duration
       IN  \E line \in EncoderLines(dur) :
             /\ IF Callbacks(line) # <<>>
                THEN Put(Msg("progress", r,
                             Percent(Micros(Callbacks(line)[1]), dur)))
                ELSE UNCHANGED gui_queue
             /\ IF EndsReading(line)
                THEN job' = [job EXCEPT ![r].pc = "proc_wait"]
                ELSE UNCHANGED job
    /\ UNCHANGED <<frontend, info, tree, progress_vals, total, done,
                   work_queue, max_workers>>

(* run_ffmpeg_gui: proc.stdout is exhausted, the for loop ends *)
end_of_stream(r) ==
    /\ frontend = "gui"
    /\ job[r].pc = "reading"
    /\ job' = [job EXCEPT ![r].pc = "proc_wait"]
    /\ UNCHANGED <<frontend, info, tree, progress_vals, total, done, gui_queue,
                   work_queue, max_workers>>

(* run_ffmpeg_gui: proc.wait(), the returncode test, update(duration) *)
proc_wait(r) ==
    /\ frontend = "gui"
    /\ job[r].pc = "proc_wait"
    /\ \E rc \in {0, 1} : EncoderExit(r, rc)
    /\ UNCHANGED <<frontend, info, tree, progress_vals, total, done,
                   work_queue, max_workers>>

----------------------------------------------------------------------------

----------------------------------------------------------------------------
(* The command line: main, compress, run_with_progress.  The Progress bars *)
(* are not modelled; job[r].log is what compress logs for the video.       *)

(* main(): videos found, tasks built, every task submitted to the pool.    *)
(* A task's duration is read by compress and kept in its frame only.       *)
MainCli(n, mode) ==
    /\ frontend = "boot"
    /\ frontend' = "cli"
    /\ max_workers' = CliPoolSize(n)
    /\ info' = [i \in 1..n |-> [duration |-> 0, mode |-> mode, done |-> FALSE]]
    /\ job' = [i \in 1..n |-> NewJob]
    /\ work_queue' = [i \in 1..n |-> i]
    /\ UNCHANGED <<tree, progress_vals, total, done, gui_queue>>

(* compress up to run_with_progress's first call: a free thread takes the  *)
(* task; an exception before the try block ends the call unlogged          *)
compress(r) ==
    /\ frontend = "cli"
    /\ CanStart(r)
    /\ work_queue' = Tail(work_queue)
    /\ LET Spawn(dur, w2, h2, vbr) ==
               job' = [job EXCEPT ![r].pc = EncoderPc(dur),
                                  ![r].spawned = @ + 1, ![r].probe = "ok",
                                  ![r].w2 = w2, ![r].h2 = h2, ![r].vbr = vbr]
           Raise(why) ==
               job' = [job EXCEPT ![r].pc = "returned", ![r].probe = why,
                                  ![r].log = "raised"]
       IN  \/ Raise("get_duration")            \* ffprobe exits nonzero
           \/ \E dur \in Durations :
                 \/ /\ info[r].mode = "crf"
                    /\ Spawn(dur, 0, 0, 0)
                 \/ /\ info[r].mode = "size"
                    /\ \/ Raise("probe_video")
                       \/ \E wh \in ProbedSizes :
                             IF dur = 0
                             THEN Raise("ZeroDivisionError")
                             ELSE LET sol == Solved[wh, dur]
                                  IN  IF sol.exits
                                      THEN Spawn(dur, sol.w2, sol.h2, sol.vbr)
                                      ELSE job' = [job EXCEPT ![r].pc = "solver_loop",
                                                              ![r].probe = "ok"]
    /\ UNCHANGED <<frontend, info, tree, progress_vals, total, done, gui_queue,
                   max_workers>>

(* compress after the encoder exited with rc: the log line *)
Logged(rc) == IF rc # 0 THEN "Error" ELSE "Completed"

(* run_with_progress, duration <= SHORT_THRESHOLD: subprocess.run(check=True) *)
run_with_progress_short(r) ==
    /\ frontend = "cli"
    /\ job[r].pc = "subprocess_run"
    /\ \E rc \in {0, 1} :
          job' = [job EXCEPT ![r].pc = "returned", ![r].rc = rc,
                             ![r].log = Logged(rc)]
    /\ UNCHANGED <<frontend, info, tree, progress_vals, total, done, gui_queue,
                   work_queue, max_workers>>

(* run_with_progress: one iteration of  for line in proc.stdout; only      *)
(* "progress=end" changes what follows                                     *)
run_with_progress_line(r) ==
    /\ frontend = "cli"
    /\ job[r].pc = "reading"
    /\ \E line \in EncoderLines(SHORT_THRESHOLD + 1) :
          IF line.key = "progress" /\ line.word = "end"
          THEN job' = [job EXCEPT ![r].pc = "proc_wait"]
          ELSE UNCHANGED job
    /\ UNCHANGED <<frontend, info, tree, progress_vals, total, done, gui_queue,
                   work_queue, max_workers>>

(* run_with_progress: proc.stdout is exhausted, then proc.wait() and the   *)
(* returncode test                                                         *)
run_with_progress_wait(r) ==
    /\ frontend = "cli"
    /\ job[r].pc \in {"reading", "proc_wait"}
    /\ \E rc \in {0, 1} :
          job' = [job EXCEPT ![r].pc = "returned", ![r].rc = rc,
                             ![r].log = Logged(rc)]
    /\ UNCHANGED <<frontend, info, tree, progress_vals, total, done, gui_queue,
                   work_queue, max_workers>>

----------------------------------------------------------------------------
(* The Qt window: qt_gui.main, MainWindow, Worker.  A row's progress bar   *)
(* is progress_vals[r]; it has no other display of a job's state.          *)

(* Tasks added to the Qt window: one more than the pool of the other      *)
(* front-ends has threads                                                  *)
MaxTasks == MAX_WORKERS + 1

(* QProgressBar(): minimum 0, maximum 100, value -1 until setValue *)
QProgressBarUnset == -1

(* qt_gui.main(): the window is shown, no task yet *)
MainQt ==
    /\ frontend = "boot"
    /\ frontend' = "qt"
    /\ UNCHANGED <<info, tree, progress_vals, total, done, gui_queue,
                   work_queue, max_workers, job>>

(* MainWindow.add_task, start_task included: a row, its progress bar, a    *)
(* Worker and a QThread of its own, started at once                        *)
add_task(mode) ==
    /\ frontend = "qt"
    /\ Len(info) < MaxTasks
    /\ info' = Append(info, [duration |-> 0, mode |-> mode, done |-> FALSE])
    /\ progress_vals' = Append(progress_vals, QProgressBarUnset)
    /\ job' = Append(job, [NewJob EXCEPT !.pc = "thread_started"])
    /\ UNCHANGED <<frontend, tree, total, done, gui_queue, work_queue,
                   max_workers>>

(* Worker.run: run_compress(..., progress=None, cb=update) raises          *)
(* TypeError, compress has no parameter cb; the finally clause emits       *)
(* finished(row) and the exception leaves the slot.  PyQt5 from 5.5 on     *)
(* ends the process on an exception that leaves a slot, older ones print   *)
(* the traceback and go on.                                                *)
Worker_run(r) ==
    /\ frontend = "qt"
    /\ job[r].pc = "thread_started"
    /\ \/ /\ job' = [job EXCEPT ![r].pc = "finished_emitted",
                                 ![r].log = "TypeError"]
          /\ UNCHANGED frontend
       \/ /\ job' = [job EXCEPT ![r].pc = "aborted", ![r].log = "TypeError"]
          /\ frontend' = "qt_aborted"
    /\ UNCHANGED <<info, tree, progress_vals, total, done, gui_queue,
                   work_queue, max_workers>>

(* MainWindow.task_finished(row), then thread.quit and cleanup_thread *)
task_finished(r) ==
    /\ frontend = "qt"
    /\ job[r].pc = "finished_emitted"
    /\ progress_vals' = [progress_vals EXCEPT ![r] = 100]
    /\ job' = [job EXCEPT ![r].pc = "returned"]
    /\ UNCHANGED <<frontend, info, tree, total, done, gui_queue, work_queue,
                   max_workers>>

----------------------------------------------------------------------------
(* The solver's loop, one evaluation of its test per step *)

Idle == [pc |-> "idle"]

(* What ffprobe may report to a solver run: sizes, durations in microseconds *)
SolverSizes == {<<1, 1>>, <<640, 360>>, <<1920, 1080>>, <<65535, 65535>>}
SolverDurations ==
    {-1000000, 0, 1000000, 2000000, 120000000, 589000000, 589823999,
     589824001, 600000000}

solver_zero_division ==
    /\ scale_loop.pc = "test"
    /\ scale_loop.s.dur = 0
    /\ scale_loop' = [scale_loop EXCEPT !.pc = "ZeroDivisionError"]

solver_scale_down ==
    /\ scale_loop.pc = "test"
    /\ scale_loop.s.dur # 0
    /\ scale_loop.s.iters < MaxIter
    /\ BitrateBelowFloor(scale_loop.s)
    /\ scale_loop' = [scale_loop EXCEPT !.s = ShrinkScale(@)]

solver_break ==
    /\ scale_loop.pc = "test"
    /\ scale_loop.s.dur # 0
    /\ ~BitrateBelowFloor(scale_loop.s)
    /\ scale_loop' = [scale_loop EXCEPT !.pc = "break",
                                        !.ret = SolverReturn(scale_loop.s)]

----------------------------------------------------------------------------
(* compress5.find_optimal_parameters, one evaluation of its test per step, *)
(* for target_size_bytes = 4.5 * 1024 * 1024 as process_videos passes it.  *)
(* scale_factor is 0.9^k; width and height are the loop's own variables,   *)
(* overwritten by every downscale.                                         *)

MaxFive == 20       \* downscales of the stepped find_optimal_parameters

FiveSizes == {<<1, 1>>, <<16, 4096>>, <<2560, 1440>>, <<3840, 2160>>}
FiveDurations == {-1000000, 0, 120000000, 580000000, 589823999}

FiveStart(w, h, dur) ==
    [w |-> w, h |-> h, dur |-> dur, k |-> 0, width |-> w, height |-> h]

(* video_bitrate < min_bitrate, min_bitrate = width * height * 0.1: both   *)
(* sides times duration * 10 / AUDIO_BR; a negative video_bitrate is below *)
(* every min_bitrate                                                       *)
FiveBelowMin(s) ==
    IF Headroom(s.dur) < 0 \/ s.dur < 0 THEN TRUE
    ELSE BigLess(BigMul(BigMul(Big(Headroom(s.dur)), AUDIO_BR), 10),
                 BigMul(BigMul(Big(s.dur), s.width), s.height))

(* int(n * scale_factor) for scale_factor = 0.9^k *)
FiveScaled(n, k) ==
    LET p == Scaled(Big(n), 9, k)
    IN  IF Len(p) > 0 THEN BigShift(p, k) ELSE 0

(* A downscale that makes the frame larger *)
FiveEnlarges(s) ==
    [s EXCEPT !.k = @ + 1, !.width = @ + 1, !.height = @ + 1]

(* scale_factor *= 0.9; width = int(width * scale_factor);                 *)
(* height = int(height * scale_factor)                                     *)
FiveShrink(s) ==
    [s EXCEPT !.k = @ + 1,
              !.width = FiveScaled(@, s.k + 1),
              !.height = FiveScaled(@, s.k + 1)]

(* return width, height, int(video_bitrate) *)
FiveReturn(s) == [w2 |-> s.width, h2 |-> s.height, vbr |-> IntVbr(s.dur)]

five_zero_division ==
    /\ five.pc = "test"
    /\ five.s.dur = 0
    /\ five' = [five EXCEPT !.pc = "ZeroDivisionError"]

five_scale_down ==
    /\ five.pc = "test"
    /\ five.s.dur # 0
    /\ five.s.k < MaxFive
    /\ FiveBelowMin(five.s)
    /\ five' = [five EXCEPT !.s = FiveShrink(@)]

five_break ==
    /\ five.pc = "test"
    /\ five.s.dur # 0
    /\ ~FiveBelowMin(five.s)
    /\ five' = [pc |-> "break", s |-> five.s, ret |-> FiveReturn(five.s)]

----------------------------------------------------------------------------
(* run_ffmpeg_gui alone, one call of it stepped: relay.stream is what the  *)
(* encoder writes to the pipe, relay.read the lines taken from it, and     *)
(* relay.calls the values update was called with, in order.                *)
(* run_with_progress has the same statements, with progress.update for     *)
(* update.                                                                 *)

MaxStream == 3      \* lines the encoder writes in the stepped relay

RelayDurations == {0, 1, 2, 3}

RelayLines ==
    {NumLine("out_time_ms", n) : n \in {-1000000, 1500000, 700000000}}
    \cup {WordLine("out_time_ms", "N/A"), NumLine("out_time_us", 1500000),
          NumLine("frame", 1),
          WordLine("progress", "continue"), WordLine("progress", "end")}

RECURSIVE Streams(_)
Streams(n) ==
    IF n = 0 THEN {<<>>}
    ELSE Streams(n - 1)
         \cup {Append(st, line) : st \in {x \in Streams(n - 1) : Len(x) = n - 1},
                                  line \in RelayLines}

(* if duration <= SHORT_THRESHOLD: subprocess.run(check=True), then        *)
(* update(duration); CalledProcessError leaves the function                *)
run_ffmpeg_gui_short ==
    /\ relay.pc = "subprocess_run"
    /\ \E rc \in {0, 1} :
          relay' = [relay EXCEPT
                        !.rc = rc,
                        !.pc = IF rc = 0 THEN "returned" ELSE "raised",
                        !.calls = IF rc = 0
                                  THEN Append(@, Seconds(relay.dur * 1000000))
                                  ELSE @]

(* One iteration of  for line in proc.stdout *)
run_ffmpeg_gui_line ==
    /\ relay.pc = "reading"
    /\ relay.stream # <<>>
    /\ LET line == Head(relay.stream)
       IN  relay' = [relay EXCEPT
                         !.stream = Tail(@),
                         !.read = Append(@, line),
                         !.calls = @ \o Callbacks(line),
                         !.pc = IF EndsReading(line) THEN "proc_wait" ELSE @]

(* proc.stdout is exhausted: the encoder closed the pipe *)
run_ffmpeg_gui_eof ==
    /\ relay.pc = "reading"
    /\ relay.stream = <<>>
    /\ relay' = [relay EXCEPT !.pc = "proc_wait"]

(* proc.wait(); if proc.returncode: raise RuntimeError; update(duration) *)
run_ffmpeg_gui_wait ==
    /\ relay.pc = "proc_wait"
    /\ \E rc \in {0, 1} :
          relay' = [relay EXCEPT
                        !.rc = rc,
                        !.pc = IF rc = 0 THEN "returned" ELSE "raised",
                        !.calls = IF rc = 0
                                  THEN Append(@, Seconds(relay.dur * 1000000))
                                  ELSE @]

----------------------------------------------------------------------------

Boot ==
    /\ frontend = "boot"
    /\ info = <<>>
    /\ tree = <<>>
    /\ progress_vals = <<>>
    /\ total = 0
    /\ done = 0
    /\ gui_queue = <<>>
    /\ work_queue = <<>>
    /\ max_workers = 0
    /\ job = <<>>

Init ==
    /\ Boot
    /\ scale_loop = Idle
    /\ relay = Idle
    /\ five = Idle

Next ==
    \/ MainGui /\ UNCHANGED aux_vars
    \/ \E dur \in Durations, mode \in Modes :
          add_files(dur, mode) /\ UNCHANGED aux_vars
    \/ process_gui_queue /\ UNCHANGED aux_vars
    \/ \E r \in Rows : process_row(r) /\ UNCHANGED aux_vars
    \/ \E r \in Rows : compress_gui(r) /\ UNCHANGED aux_vars
    \/ \E r \in Rows : solver_loop(r)
    \/ \E r \in Rows : subprocess_run(r) /\ UNCHANGED aux_vars
    \/ \E r \in Rows : read_line(r) /\ UNCHANGED aux_vars
    \/ \E r \in Rows : end_of_stream(r) /\ UNCHANGED aux_vars
    \/ \E r \in Rows : proc_wait(r) /\ UNCHANGED aux_vars
    \/ \E r \in Rows : put_finish(r) /\ UNCHANGED aux_vars
    \/ \E n \in 1..MaxVideos, mode \in Modes :
          MainCli(n, mode) /\ UNCHANGED aux_vars
    \/ \E r \in Rows : compress(r) /\ UNCHANGED aux_vars
    \/ \E r \in Rows : run_with_progress_short(r) /\ UNCHANGED aux_vars
    \/ \E r \in Rows : run_with_progress_line(r) /\ UNCHANGED aux_vars
    \/ \E r \in Rows : run_with_progress_wait(r) /\ UNCHANGED aux_vars
    \/ MainQt /\ UNCHANGED aux_vars
    \/ \E mode \in Modes : add_task(mode) /\ UNCHANGED aux_vars
    \/ \E r \in Rows : Worker_run(r) /\ UNCHANGED aux_vars
    \/ \E r \in Rows : task_finished(r) /\ UNCHANGED aux_vars

Spec == Init /\ [][Next]_vars

InitSolver ==
    /\ Boot
    /\ \E wh \in SolverSizes, dur \in SolverDurations :
          scale_loop = [pc |-> "test", s |-> SolverStart(wh[1], wh[2], dur),
                        ret |-> StillLooping(SolverStart(wh[1], wh[2], dur))]
    /\ relay = Idle
    /\ five = Idle

NextSolver ==
    \/ solver_zero_division /\ UNCHANGED <<sched_vars, relay, five>>
    \/ solver_scale_down /\ UNCHANGED <<sched_vars, relay, five>>
    \/ solver_break /\ UNCHANGED <<sched_vars, relay, five>>

SpecSolver == InitSolver /\ [][NextSolver]_vars

(* A call of run_ffmpeg_gui: the encoder is started by the branch the      *)
(* duration selects; only the streamed branch has a pipe to read           *)
InitRelay ==
    /\ Boot
    /\ scale_loop = Idle
    /\ five = Idle
    /\ \E dur \in RelayDurations :
          \E st \in (IF EncoderPc(dur) = "reading"
                     THEN Streams(MaxStream) ELSE {<<>>}) :
             relay = [pc |-> EncoderPc(dur), dur |-> dur, stream |-> st,
                      read |-> <<>>, calls |-> <<>>, rc |-> -1]

NextRelay ==
    \/ run_ffmpeg_gui_short /\ UNCHANGED <<sched_vars, scale_loop, five>>
    \/ run_ffmpeg_gui_line /\ UNCHANGED <<sched_vars, scale_loop, five>>
    \/ run_ffmpeg_gui_eof /\ UNCHANGED <<sched_vars, scale_loop, five>>
    \/ run_ffmpeg_gui_wait /\ UNCHANGED <<sched_vars, scale_loop, five>>

SpecRelay == InitRelay /\ [][NextRelay]_vars

(* The two solvers side by side on the same probed values *)
InitFive ==
    /\ Boot
    /\ relay = Idle
    /\ \E wh \in FiveSizes, dur \in FiveDurations :
          /\ scale_loop = [pc |-> "test", s |-> SolverStart(wh[1], wh[2], dur),
                           ret |-> StillLooping(SolverStart(wh[1], wh[2], dur))]
          /\ five = [pc |-> "test", s |-> FiveStart(wh[1], wh[2], dur)]

NextFive ==
    \/ solver_zero_division /\ UNCHANGED <<sched_vars, relay, five>>
    \/ solver_scale_down /\ UNCHANGED <<sched_vars, relay, five>>
    \/ solver_break /\ UNCHANGED <<sched_vars, relay, five>>
    \/ five_zero_division /\ UNCHANGED <<sched_vars, relay, scale_loop>>
    \/ five_scale_down /\ UNCHANGED <<sched_vars, relay, scale_loop>>
    \/ five_break /\ UNCHANGED <<sched_vars, relay, scale_loop>>

SpecFive == InitFive /\ [][NextFive]_vars

----------------------------------------------------------------------------
(* Properties *)

(* The rows of the Treeview *)
GuiRows == IF frontend = "gui" THEN Rows ELSE {}

Terminal == {"completed", "error"}

ProbeFailures == {"get_duration", "probe_video"}

(* The rows with a message of theirs still unread in gui_queue *)
Unread == {gui_queue[i].row : i \in 1..Len(gui_queue)}

(* C1: in the Tk scheduler, done is the number of rows whose terminal      *)
(* message ("finish" or "error") has been processed: every such row counts *)
(* once, its worker has returned and has no further message in the queue,  *)
(* and "begin" and "progress" messages add nothing.                        *)
C1_DoneCountsTerminalMessages ==
    frontend = "gui" =>
        /\ done = Cardinality({r \in Rows : info[r].done})
        /\ \A r \in Rows :
              info[r].done => job[r].pc = "returned" /\ r \notin Unread

(* One row is done and counted, another has had progress shown and is not *)
C1_Witness ==
    /\ frontend = "gui"
    /\ done = 1
    /\ \E r \in Rows : info[r].done
    /\ \E r \in Rows : ~info[r].done /\ progress_vals[r] > 0

(* C2: with N submitted jobs and a capacity of MAX_WORKERS, neither the Tk *)
(* executor nor the command line's has more than MAX_WORKERS jobs in their *)
(* encoder-subprocess phase at once.                                       *)
C2_EncodersWithinCapacity == Cardinality(Encoding) <= MAX_WORKERS

(* MAX_WORKERS encoders run in the Tk scheduler while a further row waits *)
C2_Witness ==
    /\ frontend = "gui"
    /\ Cardinality(Encoding) = MAX_WORKERS
    /\ work_queue # <<>>

(* C3: a row shown in a terminal state (completed or error) never changes  *)
(* its state again, and a waiting row is shown in progress before it is    *)
(* shown in a terminal state.                                              *)
C3_TerminalStateIsFinal ==
    [][\A r \in GuiRows :
          /\ tree[r].tag \in Terminal => tree'[r].tag = tree[r].tag
          /\ tree[r].tag = "waiting" => tree'[r].tag \in {"waiting", "in_progress"}]_vars

(* C4: in the Tk scheduler done never exceeds total, total is the number   *)
(* of submitted rows, and once every row has reached its terminal state,   *)
(* completed or error alike, done = total = N.                             *)
C4_DoneReachesTotal ==
    frontend = "gui" =>
        /\ done <= total
        /\ total = Len(info)
        /\ (\A r \in Rows : info[r].done) => done = total
        /\ ((\A r \in Rows : job[r].pc = "returned") /\ gui_queue = <<>>)
              => done = total

(* Every row of a batch is done, one of them failed, and done = total *)
C4_Witness ==
    /\ frontend = "gui"
    /\ total >= 2
    /\ done = total
    /\ \E r \in Rows : tree[r].tag = "error"
    /\ \E r \in Rows : tree[r].tag = "completed"

(* C5: a failing job releases its worker, so that the other submitted jobs *)
(* are still run: it is never the case that a submitted job waits while    *)
(* every thread of the pool is held by a job whose solver cannot return.   *)
C5_FailedJobReleasesWorker ==
    ~ /\ work_queue # <<>>
      /\ Cardinality(Busy) = max_workers
      /\ \A r \in Busy : job[r].pc = "solver_loop"

(* C12: no job holds its worker forever: no row's worker is in the solver  *)
(* loop with a negative vbr, the loop whose test no scale turns false and  *)
(* which the worker therefore never leaves.                                *)
C12_NoWorkerHeldForever ==
    \A r \in GuiRows :
        ~ /\ job[r].pc = "solver_loop"
          /\ Headroom(info[r].duration * 1000000) < 0

(* The inputs of the solver run in scale_loop *)
Valid(s) == s.w > 0 /\ s.h > 0 /\ s.dur > 0 /\ Headroom(s.dur) > 0
Degenerate(s) == s.dur > 0 /\ Headroom(s.dur) <= 0

(* C6: for a degenerate target (target_b * 8 <= AUDIO_BR * duration) the   *)
(* solver does not stay in its loop: it is out of it, with an error,       *)
(* within the 200 iterations a valid input is allowed.                     *)
C6_DegenerateTargetLeavesLoop ==
    (scale_loop.pc # "idle" /\ Degenerate(scale_loop.s))
        => scale_loop.s.iters < 200

(* C11: a solver run whose probed duration is <= 0 is rejected before the  *)
(* loop runs: it neither divides by the duration nor shrinks the scale.    *)
C11_NonPositiveDurationRejected ==
    (scale_loop.pc # "idle" /\ scale_loop.s.dur <= 0)
        => scale_loop.pc = "test" /\ scale_loop.s.iters = 0

(* C7: for valid inputs the loop has returned by its 200th iteration, with *)
(* a bitrate >= 0 and a scaled resolution no larger than the probed one.   *)
C7_ValidInputTerminates ==
    (scale_loop.pc # "idle" /\ Valid(scale_loop.s)) =>
        /\ scale_loop.s.iters < 200
        /\ scale_loop.pc = "break" =>
              /\ scale_loop.ret.iters <= 200
              /\ scale_loop.ret.vbr >= 0
              /\ scale_loop.ret.w2 <= scale_loop.s.w
              /\ scale_loop.ret.h2 <= scale_loop.s.h

(* A valid input that takes more than 100 iterations and scales to nothing *)
C7_Witness ==
    /\ scale_loop.pc = "break"
    /\ Valid(scale_loop.s)
    /\ scale_loop.ret.iters > 100
    /\ scale_loop.ret.w2 < scale_loop.s.w

(* C8: a row whose encoder exited with a nonzero status is never shown as  *)
(* completed.                                                              *)
C8_NonzeroExitNeverCompleted ==
    \A r \in GuiRows : job[r].rc > 0 => tree[r].tag # "completed"

(* C9: a row whose encoder exited with status 0 ends completed, not error, *)
(* whatever its probed duration and mode.                                  *)
C9_ZeroExitCompletes ==
    \A r \in GuiRows :
        (job[r].rc = 0 /\ info[r].done) => tree[r].tag = "completed"

Relayed ==
    IF relay.pc = "returned"
    THEN SubSeq(relay.calls, 1, Len(relay.calls) - 1)
    ELSE relay.calls

(* The lines read so far that are 'out_time_ms=<integer>' *)
Timed == SelectSeq(relay.read, LAMBDA l : l.key = "out_time_ms" /\ l.isint)

(* C13: the relay calls the callback exactly once for each line            *)
(* 'out_time_ms=<integer N>' it reads, in order, with N / 1_000_000        *)
(* seconds; no other line makes a callback, and no line makes the call     *)
(* fail: it raises only on a nonzero exit status.                          *)
C13_OneCallbackPerTimedLine ==
    relay.pc # "idle" =>
        /\ Len(Relayed) = Len(Timed)
        /\ \A i \in 1..Len(Relayed) :
              /\ Relayed[i].us \in 0..999999
              /\ Micros(Relayed[i]) = Timed[i].n
        /\ relay.pc = "raised" => relay.rc # 0

C13_Witness ==
    /\ relay.pc = "returned"
    /\ Len(Timed) >= 1
    /\ \E i \in 1..Len(relay.read) :
          relay.read[i] = WordLine("out_time_ms", "N/A")
    /\ \E i \in 1..Len(relay.read) : relay.read[i].key # "out_time_ms"

(* The relay has read a line 'progress=end' *)
EndRead ==
    /\ relay.pc # "idle"
    /\ \E i \in 1..Len(relay.read) : relay.read[i] = WordLine("progress", "end")

(* C14: once the relay has read a line 'progress=end' it reads nothing     *)
(* more, so no later 'out_time_ms' line makes a callback: its only step is *)
(* the wait for the exit status, which ends the call with the job's        *)
(* outcome whatever is left in the stream.                                 *)
C14_EndStopsReading ==
    [][EndRead =>
          /\ relay'.read = relay.read
          /\ relay'.stream = relay.stream
          /\ relay'.pc \in {"returned", "raised"}
          /\ relay'.calls = IF relay'.pc = "returned"
                            THEN Append(relay.calls, Seconds(relay.dur * 1000000))
                            ELSE relay.calls]_vars

C14_Witness ==
    /\ EndRead
    /\ relay.pc = "returned"
    /\ \E i \in 1..Len(relay.stream) :
          relay.stream[i].key = "out_time_ms" /\ relay.stream[i].isint

(* C15: for a duration of at most SHORT_THRESHOLD seconds the relay reads  *)
(* no stream: update is not called before the encoder has exited, it is    *)
(* called exactly once, with the duration, when the exit status is 0, and  *)
(* not at all when the encoder failed.                                     *)
C15_ShortClipSingleCallback ==
    (relay.pc # "idle" /\ relay.dur <= SHORT_THRESHOLD) =>
        /\ relay.pc \in {"subprocess_run", "returned", "raised"}
        /\ relay.read = <<>>
        /\ relay.pc = "subprocess_run" => relay.calls = <<>>
        /\ relay.pc = "returned" =>
              /\ relay.rc = 0
              /\ Len(relay.calls) = 1
              /\ Micros(relay.calls[1]) = relay.dur * 1000000
        /\ relay.pc = "raised" => relay.rc # 0 /\ relay.calls = <<>>

C15_Witness ==
    /\ relay.pc = "returned"
    /\ relay.dur = SHORT_THRESHOLD
    /\ Len(relay.calls) = 1

(* The rows of the Qt table *)
QtRows == IF frontend \in {"qt", "qt_aborted"} THEN Rows ELSE {}

(* The Qt rows whose worker thread is started and not yet finished *)
QtRunning == {r \in QtRows : job[r].pc \in {"thread_started", "finished_emitted"}}

(* C16: in every front-end a job that has ended in failure is shown        *)
(* differently from a completed one: a Tk row is tagged error and is not   *)
(* at 100, the command line does not log Completed, a Qt progress bar is   *)
(* not at 100.                                                             *)
C16_FailedShownDistinct ==
    \A r \in Rows :
        /\ (frontend = "gui" /\ info[r].done /\ job[r].rc # 0)
              => tree[r].tag = "error" /\ progress_vals[r] # 100
        /\ (frontend = "cli" /\ job[r].pc = "returned" /\ job[r].rc # 0)
              => job[r].log # "Completed"
        /\ (r \in QtRows /\ job[r].pc = "returned" /\ job[r].log = "TypeError")
              => progress_vals[r] # 100

(* C17: the Qt window never has more worker threads running than the       *)
(* fixed capacity of a pool, however many tasks are added.                 *)
C17_QtWithinCapacity == Cardinality(QtRunning) <= MAX_WORKERS

(* C18: the progress recorded for a Tk row stays within 0..100 percent     *)
(* whatever lines the encoder writes and whatever message ends the job.    *)
C18_ProgressInRange ==
    \A r \in GuiRows : progress_vals[r] >= 0 /\ progress_vals[r] <= 100

(* video_bitrate < width * height * 0.9^(2*j) * 0.1 for the values probed: *)
(* both sides times duration * 10 * 100^j / AUDIO_BR                       *)
BelowFloorAt(s, j) ==
    BigLess(Scaled(BigMul(BigMul(Big(Headroom(s.dur)), AUDIO_BR), 10), 100, j),
            Scaled(BigMul(BigMul(Big(s.dur), s.w), s.h), 81, j))

(* n = int(x * 0.9^k) *)
IsScaledInt(n, x, k) ==
    /\ ~BigLess(Scaled(Big(x), 9, k), Scaled(Big(n), 10, k))
    /\ BigLess(Scaled(Big(x), 9, k), Scaled(Big(n + 1), 10, k))

(* x + y from limb i on, with the carry into it *)
RECURSIVE BigAddFrom(_, _, _, _)
BigAddFrom(x, y, i, carry) ==
    IF i > Len(x) /\ i > Len(y)
    THEN IF carry = 0 THEN <<>> ELSE <<carry>>
    ELSE LET t == (IF i <= Len(x) THEN x[i] ELSE 0)
                  + (IF i <= Len(y) THEN y[i] ELSE 0) + carry
         IN  <<t % Limb>> \o BigAddFrom(x, y, i + 1, t \div Limb)

(* n * dur for n < Limb * Limb, as limbs *)
Product(n, dur) ==
    LET high == BigMul(Big(dur), n \div Limb)
        low == BigMul(Big(dur), n % Limb)
    IN  IF high = <<0>> THEN low ELSE BigAddFrom(<<0>> \o high, low, 1, 0)

(* n = int((target_b * 8 - AUDIO_BR * duration) / duration) *)
IsIntVbr(n, dur) ==
    /\ ~BigLess(BigMul(Big(Headroom(dur)), AUDIO_BR), Product(n, dur))
    /\ BigLess(BigMul(Big(Headroom(dur)), AUDIO_BR), Product(n + 1, dur))

(* C19: for a valid input the solver returns int(w * s), int(h * s) and    *)
(* int(vbr) with vbr = (target_b * 8 - AUDIO_BR * duration) / duration,    *)
(* whatever k is, and s = 0.9^k for the smallest k whose floor             *)
(* w * h * s^2 * 0.1 is not above vbr; with k = 0 the size is unchanged.   *)
C19_SolverReturnsSmallestScale ==
    (scale_loop.pc = "break" /\ Valid(scale_loop.s)) =>
        LET s == scale_loop.s
            ret == scale_loop.ret
        IN  /\ IsIntVbr(ret.vbr, s.dur)
            /\ ~BelowFloorAt(s, s.k)
            /\ \A j \in 0..(s.k - 1) : BelowFloorAt(s, j)
            /\ IsScaledInt(ret.w2, s.w, s.k)
            /\ IsScaledInt(ret.h2, s.h, s.k)
            /\ s.k = 0 => ret.w2 = s.w /\ ret.h2 = s.h

C19_Witness ==
    /\ scale_loop.pc = "break"
    /\ Valid(scale_loop.s)
    /\ scale_loop.s.k >= 2
    /\ scale_loop.ret.w2 > 0
    /\ scale_loop.ret.w2 < scale_loop.s.w

(* C20: for a duration of 120 s the solver returns the bitrate             *)
(* (int(4.5 * 1024 * 1024) * 8 - 64000 * 120) / 120 = 250572.8 as 250572,  *)
(* with the probed size when that is not below the floor at scale 1.0 and  *)
(* with a smaller size otherwise.                                          *)
C20_TwoMinuteBitrate ==
    (scale_loop.pc = "break" /\ scale_loop.s.dur = 120 * 1000000) =>
        LET s == scale_loop.s
            ret == scale_loop.ret
        IN  /\ ret.vbr = 250572
            /\ s.k = 0 <=> ~BelowFloorAt(s, 0)
            /\ s.k = 0 => ret.w2 = s.w /\ ret.h2 = s.h
            /\ s.k > 0 => ret.w2 < s.w /\ ret.h2 < s.h

C20_Witness ==
    /\ scale_loop.pc = "break"
    /\ scale_loop.s.dur = 120 * 1000000
    /\ scale_loop.s.w = 1920
    /\ scale_loop.s.k = 0
    /\ scale_loop.ret.vbr = 250572

(* C20 as the specification states it: the bitrate returned for 120 s is   *)
(* approximately 245653 bits/s, here within one percent of it.             *)
C20_BitrateNear245653 ==
    (scale_loop.pc = "break" /\ scale_loop.s.dur = 120 * 1000000) =>
        /\ scale_loop.ret.vbr >= 245653 - 2456
        /\ scale_loop.ret.vbr <= 245653 + 2456

(* C21: a Tk row in size mode that is shown running has its encode         *)
(* parameters already: the solver returned before the row's 'begin'.       *)
C21_ParametersBeforeRunning ==
    \A r \in GuiRows :
        (tree[r].tag = "in_progress" /\ info[r].mode = "size")
            => job[r].pc \notin {"compress_gui", "solver_loop"}

(* The rows waiting in the executor's queue *)
Waiting == {work_queue[i] : i \in 1..Len(work_queue)}

(* C22: there is no retry.  A job spawns its encoder at most once, and a   *)
(* job that has ended stays ended: it is not spawned again, not put back   *)
(* in the executor's queue, and a Tk row shown as error stays error.       *)
C22_NoRetry ==
    /\ [](\A r \in Rows : job[r].spawned <= 1)
    /\ [][\A r \in Rows :
            /\ job[r].pc = "returned" =>
                  /\ job'[r].pc = "returned"
                  /\ job'[r].spawned = job[r].spawned
                  /\ r \notin Waiting'
            /\ (r \in GuiRows /\ tree[r].tag = "error")
                  => tree'[r].tag = "error"]_vars

C22_Witness ==
    \E r \in GuiRows :
        /\ job[r].pc = "returned"
        /\ job[r].spawned = 1
        /\ job[r].rc = 1
        /\ tree[r].tag = "error"
        /\ Cardinality(Rows) > 1

(* The size compress and compress_gui would return at the loop's scale *)
Candidate(s) == [w2 |-> BigShift(s.wk, s.k), h2 |-> BigShift(s.hk, s.k)]

(* C23: in both solver loops an iteration leaves the scale as it is or     *)
(* multiplies it by 0.9, and the candidate size never grows in either      *)
(* dimension from one iteration to the next.                               *)
C23_ScaleNeverIncreases ==
    [][/\ scale_loop.pc # "idle" =>
            /\ scale_loop'.s.k \in {scale_loop.s.k, scale_loop.s.k + 1}
            /\ Candidate(scale_loop'.s).w2 <= Candidate(scale_loop.s).w2
            /\ Candidate(scale_loop'.s).h2 <= Candidate(scale_loop.s).h2
       /\ five.pc # "idle" =>
            /\ five'.s.k \in {five.s.k, five.s.k + 1}
            /\ five'.s.width <= five.s.width
            /\ five'.s.height <= five.s.height]_vars

C23_Witness ==
    /\ scale_loop.pc = "break"
    /\ scale_loop.s.k >= 2
    /\ Candidate(scale_loop.s).w2 < scale_loop.s.w
    /\ five.pc = "break"
    /\ five.s.k >= 2
    /\ five.s.width < five.s.w
    /\ five.s.height < five.s.h

(* C24: on the same probed values the two solvers return the same size and *)
(* bitrate, and one returns or raises exactly when the other does.         *)
C24_VariantsAgree ==
    (scale_loop.pc # "test" /\ five.pc \notin {"idle", "test"}) =>
        /\ scale_loop.pc = five.pc
        /\ scale_loop.pc = "break" =>
              /\ five.ret.w2 = scale_loop.ret.w2
              /\ five.ret.h2 = scale_loop.ret.h2
              /\ five.ret.vbr = scale_loop.ret.vbr

(* C26: a size the solver returns for a feasible target has a width and a  *)
(* height of at least 1.                                                   *)
C26_ReturnedSizePositive ==
    (scale_loop.pc = "break" /\ Valid(scale_loop.s)) =>
        /\ scale_loop.ret.w2 >= 1
        /\ scale_loop.ret.h2 >= 1

(* process_row's out for a row.  The videos of the model differ in their   *)
(* duration, so a row's duration stands for its input path: two rows of    *)
(* the same duration are the same file added twice.                        *)
OutputPath(r) ==
    [stem |-> info[r].duration,
     name |-> IF info[r].mode = "size" THEN "_smaller.mp4" ELSE "_compressed.mp4"]

(* C25: two Tk rows whose encoders run at the same time write different    *)
(* output files.                                                           *)
C25_DistinctOutputs ==
    \A r1 \in GuiRows \cap Encoding, r2 \in GuiRows \cap Encoding :
        r1 # r2 => OutputPath(r1) # OutputPath(r2)

====
